---- MODULE Spec2Model ----
(***************************************************************************)
(* Model of pipeline/stage04_wave_detection/scripts/plot_movie_frames.py:  *)
(* the event binning (get_events), the time-axis resampling                *)
(* (stretch_to_framerate) and the frame loop of the script's main block.   *)
(*                                                                         *)
(* Times are integers (seconds).  A frame rate is a rational num/den, so   *)
(* the product duration * frame_rate is a rational that int() truncates.   *)
(* Optional values are records tagged by "kind".                           *)
(***************************************************************************)
EXTENDS Integers, Sequences, FiniteSets, TLC

VARIABLES
    events,        \* blk.segments[0].events: sequence of [name, data]
    times,         \* analogsignals[0].times: one timestamp per raster
    t_start,       \* analogsignals[0].t_start
    t_stop,        \* analogsignals[0].t_stop
    frame_rate,    \* args.frame_rate: None or a float num/den
    argEvent,      \* args.event: None or a name
    optical_flow,  \* get_opticalflow(...): None or the field's frame count
    pc,            \* position in the main block
    up_coords,     \* unbound, None, or the per-frame buckets
    frame_idx,     \* the target timeline
    i,             \* enumerate counter of the frame loop
    saved,         \* the frames persisted by save_plot, in order
    notice,        \* number of "No ... events found!" lines printed
    exc            \* the exception that ended the run, "none" while there is none

vars == <<events, times, t_start, t_stop, frame_rate, argEvent, optical_flow,
          pc, up_coords, frame_idx, i, saved, notice, exc>>

\* ---------------------------------------------------------------- bounds
MaxFrames == 3
MaxRate == 2
MaxDuration == 2
MaxEvTime == 3
MaxEvents == 3
MaxEvFrames == 3
MaxSrcFrames == 4
MaxStop == 3
MaxRateNum == 4
MaxRateDen == 2

\* ------------------------------------------------------- optional values
None == [kind |-> "None"]
Unbound == [kind |-> "unbound"]
Raise == [kind |-> "raise"]
Some(v) == [kind |-> "some", val |-> v]
Float(n, d) == [kind |-> "float", num |-> n, den |-> d]

Coords == {<<0, 0>>, <<1, 1>>}

\* ------------------------------------------------------------ get_events
\* order=['time', 'x_coords', 'y_coords']
UpsLessEq(a, b) ==
    \/ a.time < b.time
    \/ a.time = b.time /\ a.x < b.x
    \/ a.time = b.time /\ a.x = b.x /\ a.y <= b.y

RECURSIVE SortUps(_)
SortUps(S) ==
    IF S = {} THEN <<>>
    ELSE LET m == CHOOSE e \in S : \A o \in S : UpsLessEq(e, o)
         IN <<m>> \o SortUps(S \ {m})

\* np.argmax of a boolean mask (0-based): first True, 0 when there is none
ArgMax(mask) ==
    IF \E j \in 1..Len(mask) : mask[j]
    THEN (CHOOSE j \in 1..Len(mask) :
              mask[j] /\ \A h \in 1..(j - 1) : ~mask[h]) - 1
    ELSE 0

\* first argument of range(...) at line 30
IdxStart(ups, frame_time) ==
    ArgMax([j \in 1..Len(ups) |-> ~(ups[j].time < frame_time)])

\* variant: the upper cursor stops at the first time >= frame_time
IdxStopInclusive(ups, frame_time) ==
    ArgMax([j \in 1..Len(ups) |-> ups[j].time >= frame_time])

\* second argument of range(...) at line 31
IdxStop(ups, frame_time) ==
    ArgMax([j \in 1..Len(ups) |-> ups[j].time > frame_time])

\* frame_ups: the (x, y) of ups at the 0-based positions range(lo, hi)
FrameUps(ups, frame_time) ==
    LET lo == IdxStart(ups, frame_time)
        hi == IdxStop(ups, frame_time)
    IN  IF hi > lo
        THEN [j \in 1..(hi - lo) |-> <<ups[lo + j].x, ups[lo + j].y>>]
        ELSE <<>>

\* variant: trans_events[0] is taken without the len() guard
get_events_unguarded(evs, frame_times, event_name) ==
    LET trans_events == SelectSeq(evs, LAMBDA ev : ev.name = event_name)
    IN  IF Len(trans_events) = 0 THEN Raise
        ELSE LET ups == SortUps(trans_events[1].data)
             IN  IF Len(ups) = 0 /\ Len(frame_times) > 0
                 THEN Raise
                 ELSE Some([k \in 1..Len(frame_times) |->
                               FrameUps(ups, frame_times[k])])

TransEvents(evs, event_name) ==
    SelectSeq(evs, LAMBDA ev : ev.name = event_name)

get_events(evs, frame_times, event_name) ==
    LET trans_events == TransEvents(evs, event_name)
    IN  IF Len(trans_events) > 0
        THEN LET ups == SortUps(trans_events[1].data)
             IN  IF Len(ups) = 0 /\ Len(frame_times) > 0
                 THEN Raise   \* argmax of an empty sequence
                 ELSE Some([k \in 1..Len(frame_times) |->
                               FrameUps(ups, frame_times[k])])
        ELSE None

\* -------------------------------------------------- stretch_to_framerate
\* round(x) of the rational n/d, d > 0: to nearest, halves to even
PyRound(n, d) ==
    LET f == n \div d
        r == n - f * d
    IN  IF 2 * r < d THEN f
        ELSE IF 2 * r > d THEN f + 1
        ELSE IF f % 2 = 0 THEN f ELSE f + 1

\* int(x) of the rational n/d, d > 0: truncation toward zero
IntTrunc(n, d) == IF n >= 0 THEN n \div d ELSE -((-n) \div d)

\* variant: the last sample is set to stop also when num = 1
LinspaceEndpoint(stop, num) ==
    IF num < 0 THEN Raise
    ELSE Some([j \in 1..num |->
                  IF j = num THEN stop
                  ELSE ((j - 1) * stop) \div (num - 1)])

\* np.linspace(0, stop, num, dtype=int): num evenly spaced samples, both
\* ends included, floored; a negative num raises
Linspace(stop, num) ==
    IF num < 0 THEN Raise
    ELSE Some([j \in 1..num |->
                  IF num = 1 THEN 0
                  ELSE IF j = num THEN stop
                  ELSE ((j - 1) * stop) \div (num - 1)])

NewNumFrames(start, stop, rate) ==
    IntTrunc((stop - start) * rate.num, rate.den)

\* variant: the samples span [0, num_frames] instead of [0, num_frames-1]
stretch_to_num_frames(start, stop, num_frames, rate) ==
    IF rate.kind = "None"
    THEN Some([j \in 1..num_frames |-> j - 1])
    ELSE Linspace(num_frames, NewNumFrames(start, stop, rate))

stretch_to_framerate(start, stop, num_frames, rate) ==
    IF rate.kind = "None"
    THEN Some([j \in 1..num_frames |-> j - 1])
    ELSE Linspace(num_frames - 1, NewNumFrames(start, stop, rate))

\* ------------------------------------------------------------ main block
dim_t == Len(times)

\* str(i) for i >= 0: the decimal digits
RECURSIVE str(_)
str(n) == IF n < 10 THEN <<n>> ELSE str(n \div 10) \o <<n % 10>>

zfill(s, width) ==
    IF Len(s) >= width THEN s
    ELSE [j \in 1..(width - Len(s)) |-> 0] \o s

\* a[k] on a sequence of length len: valid for -len <= k < len
IndexOk(len, k) == k >= -len /\ k < len
At(len, k) == IF k >= 0 THEN k ELSE len + k

\* lines 123-126
BinEvents ==
    /\ pc = "start"
    /\ LET r == IF argEvent.kind = "None" THEN Unbound
                ELSE get_events(events, times, argEvent.val)
       IN  /\ up_coords' = r
           /\ notice' = IF r.kind = "None" THEN notice + 1 ELSE notice
           /\ pc' = IF r.kind = "raise" THEN "error" ELSE "binned"
           /\ exc' = IF r.kind = "raise" THEN "ValueError: argmax" ELSE exc
    /\ UNCHANGED <<events, times, t_start, t_stop, frame_rate, argEvent,
                   optical_flow, frame_idx, i, saved>>

\* lines 129-132
Resample ==
    /\ pc = "binned"
    /\ LET r == stretch_to_framerate(t_start, t_stop, dim_t, frame_rate)
       IN  IF r.kind = "raise"
           THEN /\ pc' = "error"
                /\ exc' = "ValueError: linspace"
                /\ UNCHANGED frame_idx
           ELSE /\ pc' = "resampled"
                /\ frame_idx' = r.val
                /\ UNCHANGED exc
    /\ UNCHANGED <<events, times, t_start, t_stop, frame_rate, argEvent,
                   optical_flow, up_coords, i, saved, notice>>

\* lines 139-143: np.nanmin of an empty array raises
Prepare ==
    /\ pc = "resampled"
    /\ pc' = IF dim_t = 0 THEN "error" ELSE "loop"
    /\ exc' = IF dim_t = 0 THEN "ValueError: nanmin" ELSE exc
    /\ i' = 0
    /\ UNCHANGED <<events, times, t_start, t_stop, frame_rate, argEvent,
                   optical_flow, up_coords, frame_idx, saved, notice>>

\* variant: the bucket of the frame before frame_num is drawn
MarkersOffByOne(frame_num) ==
    IF argEvent.kind # "None" /\ up_coords.kind = "some"
    THEN Some(up_coords.val[At(dim_t, frame_num - 1) + 1])
    ELSE None

\* the bucket plot_transitions draws (lines 151-153, 73)
Markers(frame_num) ==
    IF argEvent.kind # "None" /\ up_coords.kind = "some"
    THEN Some(up_coords.val[At(dim_t, frame_num) + 1])
    ELSE None

\* the slice plot_vectorfield draws (lines 149-150)
FieldSlice(frame_num) ==
    IF optical_flow.kind # "None"
    THEN Some(At(optical_flow.val, frame_num))
    ELSE None

\* variant: the file is numbered by the source frame, not the position
FrameFileBySource(pos) == zfill(str(frame_idx[pos + 1]), 5)

\* the name given to save_plot (lines 157-159)
FrameFile(pos) == zfill(str(pos), 5)

\* lines 146-160, one iteration
RenderFrame ==
    /\ pc = "loop"
    /\ i < Len(frame_idx)
    /\ LET frame_num == frame_idx[i + 1]
           ok == /\ IndexOk(dim_t, frame_num)
                 /\ optical_flow.kind # "None"
                        => IndexOk(optical_flow.val, frame_num)
       IN  IF ok
           THEN /\ saved' = Append(saved,
                      [file    |-> FrameFile(i),
                       raster  |-> At(dim_t, frame_num),
                       field   |-> FieldSlice(frame_num),
                       markers |-> Markers(frame_num),
                       xlabel  |-> times[At(dim_t, frame_num) + 1]])
                /\ i' = i + 1
                /\ pc' = "loop"
                /\ UNCHANGED exc
           ELSE /\ pc' = "error"
                /\ exc' = "IndexError"
                /\ UNCHANGED <<saved, i>>
    /\ UNCHANGED <<events, times, t_start, t_stop, frame_rate, argEvent,
                   optical_flow, up_coords, frame_idx, notice>>

\* the loop is exhausted
Finish ==
    /\ pc = "loop"
    /\ i = Len(frame_idx)
    /\ pc' = "done"
    /\ UNCHANGED <<events, times, t_start, t_stop, frame_rate, argEvent,
                   optical_flow, up_coords, frame_idx, i, saved, notice,
                   exc>>

\* ---------------------------------------------------------------- inputs
SeqsUpTo(S, n) == UNION {[1..m -> S] : m \in 0..n}
SubsetsUpTo(S, n) == {D \in SUBSET S : Cardinality(D) <= n}

Ev(t, c) == [time |-> t, x |-> c[1], y |-> c[2]]

Started ==
    /\ pc = "start"
    /\ up_coords = Unbound
    /\ frame_idx = <<>>
    /\ i = 0
    /\ saved = <<>>
    /\ notice = 0
    /\ exc = "none"

\* the whole script on small recordings
PipeData == SUBSET {Ev(t, <<t, 0>>) : t \in 0..(MaxFrames - 1)}

Init ==
    /\ times \in SeqsUpTo(0..(MaxFrames - 2), MaxFrames)
    /\ \/ /\ argEvent = None
          /\ events = <<>>
       \/ /\ argEvent = Some("transitions")
          /\ \/ events = <<[name |-> "other", data |-> {}]>>
             \/ \E D \in PipeData :
                    events = <<[name |-> "transitions", data |-> D]>>
    /\ t_start = 0
    /\ t_stop \in 0..MaxDuration
    /\ frame_rate \in {None, Float(1, 2), Float(6, 1)} \cup
           {Float(n, 1) : n \in (-1)..MaxRate}
    /\ optical_flow \in {None} \cup
           {Some(n) : n \in {Len(times)} \cup (IF Len(times) > 0
                                               THEN {Len(times) - 1} ELSE {})}
    /\ Started

Next == BinEvents \/ Resample \/ Prepare \/ RenderFrame \/ Finish

Spec == Init /\ [][Next]_vars

\* get_events alone, on every small event set and frame-time sequence
EvDomain == {Ev(t, c) : t \in 0..MaxEvTime, c \in Coords}

InitEvents ==
    /\ times \in SeqsUpTo(0..MaxEvTime, MaxEvFrames)
    /\ argEvent = Some("transitions")
    /\ \E D \in SubsetsUpTo(EvDomain, MaxEvents) :
           events = <<[name |-> "transitions", data |-> D]>>
    /\ t_start = 0
    /\ t_stop = 0
    /\ frame_rate = None
    /\ optical_flow = None
    /\ Started

SpecEvents == InitEvents /\ [][BinEvents]_vars

\* stretch_to_framerate alone
InitStretch ==
    /\ \E n \in 0..MaxSrcFrames : times = [j \in 1..n |-> j - 1]
    /\ argEvent = None
    /\ events = <<>>
    /\ t_start \in 0..1
    /\ t_stop \in t_start..MaxStop
    /\ frame_rate \in {None} \cup
           {Float(n, d) : n \in (-1)..MaxRateNum, d \in 1..MaxRateDen}
    /\ optical_flow = None
    /\ pc = "binned"
    /\ up_coords = Unbound
    /\ frame_idx = <<>>
    /\ i = 0
    /\ saved = <<>>
    /\ notice = 0
    /\ exc = "none"

SpecStretch == InitStretch /\ [][Resample]_vars

\* ------------------------------------------------------------ properties
Range(s) == {s[j] : j \in 1..Len(s)}
CoordsOf(E) == {<<e.x, e.y>> : e \in E}
Requested == argEvent.kind = "some"
Found == Requested /\ Len(TransEvents(events, argEvent.val)) > 0
Absent == Requested /\ Len(TransEvents(events, argEvent.val)) = 0
Matching == IF Found THEN TransEvents(events, argEvent.val)[1].data ELSE {}
Returned == pc # "start" /\ up_coords.kind = "some"
Bucket(k) == up_coords.val[k]
Increasing(ts) == \A a, b \in 1..Len(ts) : a < b => ts[a] < ts[b]
Monotonic(ts) == \A a, b \in 1..Len(ts) : a < b => ts[a] <= ts[b]
DistinctCoords(E) == \A a, b \in E : <<a.x, a.y>> = <<b.x, b.y>> => a = b
Duration == t_stop - t_start
Resampled ==
    \/ pc \in {"resampled", "loop", "done"}
    \/ pc = "error" /\ exc \in {"ValueError: nanmin", "IndexError"}
TargetCount(k) ==
    frame_rate.kind = "float" /\ NewNumFrames(t_start, t_stop, frame_rate) = k
IndicesValid == \A j \in 1..Len(frame_idx) : frame_idx[j] \in 0..(dim_t - 1)
NonDecreasing ==
    \A j \in 1..(Len(frame_idx) - 1) : frame_idx[j] <= frame_idx[j + 1]
ShapeMismatch == optical_flow.kind = "some" /\ optical_flow.val # dim_t
Malformed == ShapeMismatch \/ ~Monotonic(times) \/ dim_t = 0
WellFormed ==
    /\ ~Malformed
    /\ frame_rate.kind = "float" => frame_rate.num >= 0
DrawnMarkers(rec) ==
    IF rec.markers.kind = "some" THEN Range(rec.markers.val) ELSE {}
\* format(k, '05d') for 0 <= k < 100000
Format05d(k) == [j \in 1..5 |-> (k \div (10 ^ (5 - j))) % 10]

\* C1: with increasing frame times, the bucket of frame time f holds exactly
\* the events with previous_frame_time <= t < f, and the first bucket the
\* events with t < first_frame_time.
C1_HalfOpenWindows ==
    (Returned /\ Increasing(times)) =>
        \A k \in 1..Len(times) :
            Range(Bucket(k)) =
                CoordsOf({e \in Matching :
                             /\ e.time < times[k]
                             /\ k > 1 => e.time >= times[k - 1]})

\* C2: when every event time lies within the range of the (increasing)
\* frame times, the buckets are pairwise disjoint and their union is the
\* whole set of matching events.
C2_Partition ==
    (/\ Returned
     /\ Increasing(times)
     /\ Len(times) > 0
     /\ DistinctCoords(Matching)
     /\ \A e \in Matching :
            times[1] <= e.time /\ e.time < times[Len(times)]) =>
        /\ UNION {Range(Bucket(k)) : k \in 1..Len(times)} = CoordsOf(Matching)
        /\ \A a, b \in 1..Len(times) :
               a # b => Range(Bucket(a)) \cap Range(Bucket(b)) = {}

C3_AbsentEventKind ==
    Absent =>
        /\ exc # "ValueError: argmax"
        /\ pc # "start" => notice = 1 /\ up_coords.kind = "None"
        /\ \A k \in 1..Len(saved) : DrawnMarkers(saved[k]) = {}
        /\ WellFormed => pc # "error"
        /\ pc = "done" => Len(saved) = Len(frame_idx)

C3_Witness ==
    /\ Absent
    /\ WellFormed
    /\ pc = "done"
    /\ notice = 1
    /\ Len(saved) = dim_t
    /\ dim_t >= 2

\* C4: a vector field of another shape, non-monotonic frame times or an
\* empty image sequence abort the run before any frame is persisted.
C4_MalformedAborts ==
    (Malformed /\ frame_rate.kind = "None") => saved = <<>> /\ pc # "done"

\* C5 as stated: the returned length is the duration-rate product rounded
\* to the nearest integer.
C5_RoundedLength ==
    (pc = "resampled" /\ frame_rate.kind = "float") =>
        Len(frame_idx) = PyRound(Duration * frame_rate.num, frame_rate.den)

\* C5: the returned length is the duration-rate product truncated toward
\* zero; the call raises exactly when that is negative.
C5_TruncatedLength ==
    frame_rate.kind = "float" =>
        LET n == Duration * frame_rate.num
            d == frame_rate.den
            L == Len(frame_idx)
        IN  /\ pc = "resampled" =>
                   IF n >= 0 THEN L * d <= n /\ n < (L + 1) * d
                   ELSE L = 0 /\ n > -d
            /\ pc = "error" => n <= -d

C5_Witness ==
    /\ pc = "resampled"
    /\ frame_rate.kind = "float"
    /\ Len(frame_idx) = 1
    /\ PyRound(Duration * frame_rate.num, frame_rate.den) = 2

\* C6 as stated: for any valid rate and any source frame count, the
\* returned indices lie in [0, source_frame_count-1] and do not decrease.
C6_IndexBounds ==
    (/\ pc = "resampled"
     /\ frame_rate.kind = "float" => frame_rate.num > 0) =>
        IndicesValid /\ NonDecreasing

\* C6: for a source frame count of at least 1, the returned indices lie in
\* [0, source_frame_count-1] and do not decrease.
C6_IndexBoundsNonEmpty ==
    (pc = "resampled" /\ dim_t >= 1) => IndicesValid /\ NonDecreasing

C6_Witness ==
    /\ pc = "resampled"
    /\ frame_rate.kind = "float"
    /\ dim_t >= 3
    /\ Len(frame_idx) > dim_t
    /\ frame_idx[Len(frame_idx)] = dim_t - 1
    /\ \E j \in 1..(Len(frame_idx) - 1) : frame_idx[j] = frame_idx[j + 1]

\* C7 as stated: a target frame count of 0 or 1 gives the timeline [0] and
\* exactly one rendered frame.
C7_SingleIndex ==
    (/\ TargetCount(0) \/ TargetCount(1)
     /\ frame_rate.num > 0
     /\ Duration > 0
     /\ ~Malformed
     /\ Resampled) =>
        /\ frame_idx = <<0>>
        /\ pc = "done" => Len(saved) = 1

\* C7: a target frame count of 1 gives the timeline [0] and one rendered
\* frame; a target frame count of 0 gives the empty timeline and no
\* rendered frame; in both cases the resampling does not raise.
C7_DegenerateTimeline ==
    /\ (TargetCount(1) /\ Resampled) =>
           /\ frame_idx = <<0>>
           /\ pc = "done" => Len(saved) = 1
    /\ (TargetCount(0) /\ Resampled) =>
           /\ frame_idx = <<>>
           /\ saved = <<>>
           /\ exc # "IndexError"
           /\ dim_t >= 1 => pc # "error"
    /\ (TargetCount(0) \/ TargetCount(1)) => exc # "ValueError: linspace"

C7_Witness ==
    /\ TargetCount(0)
    /\ frame_rate.num > 0
    /\ Duration > 0
    /\ ~Malformed
    /\ pc = "done"
    /\ dim_t >= 2
    /\ saved = <<>>

\* C8: the k-th persisted file (k = 0, 1, ...) carries the number k as five
\* digits, k being the position in the timeline, and the frames are
\* persisted in timeline order.
C8_SequentialNames ==
    /\ \A k \in 1..Len(saved) :
           /\ saved[k].file = Format05d(k - 1)
           /\ saved[k].raster = frame_idx[k]
    /\ pc \in {"loop", "done"} => Len(saved) = i
    /\ pc = "done" => Len(saved) = Len(frame_idx)

C8_Witness ==
    /\ pc = "done"
    /\ Len(saved) >= 12
    /\ saved[12].file = <<0, 0, 0, 1, 1>>
    /\ \E k \in 1..(Len(saved) - 1) : saved[k].raster = saved[k + 1].raster
    /\ \E k \in 1..Len(saved) : saved[k].raster # k - 1

\* C10: the raster, the field slice, the bucket and the time label of the
\* output frame at a timeline position are all those of the source frame
\* the timeline names at that position.
C10_SameSourceIndex ==
    \A k \in 1..Len(saved) :
        LET f == frame_idx[k]
            r == saved[k]
        IN  /\ r.raster = f
            /\ r.xlabel = times[f + 1]
            /\ (r.field.kind = "some") = (optical_flow.kind = "some")
            /\ r.field.kind = "some" => r.field.val = f
            /\ (r.markers.kind = "some") = (up_coords.kind = "some")
            /\ r.markers.kind = "some" => r.markers.val = up_coords.val[f + 1]

C10_Witness ==
    /\ pc = "done"
    /\ ~Malformed
    /\ up_coords.kind = "some"
    /\ \E k \in 1..Len(saved) :
           /\ frame_idx[k] # k - 1
           /\ saved[k].field.kind = "some"
           /\ saved[k].markers.kind = "some"
           /\ saved[k].markers.val # <<>>
    /\ \E f \in 0..(dim_t - 1) :
           /\ f \notin Range(frame_idx)
           /\ up_coords.val[f + 1] # <<>>

====
